---- MODULE Spec2Model ----
(***************************************************************************)
(* A model of ghmap: the redundant-review-event filter (EventProcessor),   *)
(* the mapping-version resolver of the command-line pipeline (cli.py) and  *)
(* the event-to-action rule engine (ActionMapper).                         *)
(*                                                                         *)
(* Four specifications share the module's variables:                       *)
(*   SpecFilter  - files of events are loaded and passed, one call per     *)
(*                 file, to EventProcessor._apply_filters (platform        *)
(*                 "github", empty exclusion lists, new identifiers,       *)
(*                 ISO-8601 timestamps);                                   *)
(*   SpecPlatform - the same with any platform, exclusion lists,           *)
(*                 identifiers that repeat and either timestamp format;    *)
(*   SpecPeriods - split_events_by_mapping_versions and _process_period;   *)
(*   SpecMap     - ActionMapper.map under main's error handling.           *)
(* Each specification holds the variables of the other components         *)
(* constant.                                                               *)
(***************************************************************************)
EXTENDS Integers, Sequences, FiniteSets, TLC

VARIABLES
    \* ---- EventProcessor (event_processor.py) ----
    ts_format,        \* how the input files write created_at: "iso" | "ms"
    platform,         \* self.platform
    actors,           \* _apply_filters' argument actors (actors_to_remove)
    repos,            \* _apply_filters' argument repos (repos_to_remove)
    orgs,             \* _apply_filters' argument orgs (orgs_to_remove)
    processed_ids,    \* self.processed_ids
    pending_events,   \* self.pending_events
    file_events,      \* the events of the file being loaded (_load_events)
    fed,              \* every event passed to _apply_filters so far, in order
    batches,          \* the lengths of the batches passed so far, in order
    emitted,          \* every record returned by the filter so far, in order
    last_out,         \* the list returned by the most recent call
    call_combined,    \* combined_events of the most recent call of
                      \* _filter_redundant_review_events
    call_processed_ids, \* self.processed_ids when that call began
    \* ---- mapping-version resolver (cli.py) ----
    action_versions,  \* effective-from dates of the {platform}_action_* files
    activity_versions,\* effective-from dates of the {platform}_activity_* files
    cli_events,       \* the events returned by EventProcessor.process
    assigned,         \* what _assign_events_to_periods returned
    events_by_period, \* what split_events_by_mapping_versions returned
    next_period,      \* position of _process_events' loop in events_by_period
    resolved,         \* per processed period: the versions find_valid_mappings gave
    all_actions,      \* _process_events' accumulator of actions
    all_activities,   \* _process_events' accumulator of activities
    cli_pc,           \* "split" | "periods" | "done"
    \* ---- ActionMapper.map under main (action_mapper.py, cli.py) ----
    action_mapping,   \* self.action_mapping['actions'], in document order
    mapping_strategy, \* the argument mapping_strategy
    caller_events,    \* the caller's list `events`, whose records map works on
    events_at_call,   \* the caller's list as it was when map was called
    map_i,            \* position of map's loop in events
    all_mapped_actions,      \* map's local list
    unknown_warning_issued,  \* map's local flag
    warnings,         \* positions of the records at which the warning was printed
    map_pc,           \* "loop" | "returned" | "raised" | "saved" | "reported"
    map_error,        \* the exception raised: its kind and the record named
    returned,         \* the list map returned (empty until it returns)
    written           \* what main wrote to the two output files

filterVars == <<ts_format, platform, actors, repos, orgs, processed_ids,
                pending_events, file_events, fed, batches, emitted, last_out,
                call_combined, call_processed_ids>>

cliVars == <<action_versions, activity_versions, cli_events, assigned,
             events_by_period, next_period, resolved, all_actions,
             all_activities, cli_pc>>

mapVars == <<action_mapping, mapping_strategy, caller_events, events_at_call, map_i,
             all_mapped_actions, unknown_warning_issued, warnings, map_pc,
             map_error, returned, written>>

vars == <<filterVars, cliVars, mapVars>>

----------------------------------------------------------------------------
(* Bounds *)

\* how many events the loaded files hold altogether
MaxEvents == 4
\* how many files (filter calls) one run processes
MaxCalls == 2
\* how many events reach split_events_by_mapping_versions
MaxCliEvents == 2
\* how many events one call of ActionMapper.map receives
MaxMapEvents == 3
\* how many records the loaded files hold altogether when identifiers repeat
MaxRecords == 3

----------------------------------------------------------------------------
(* Generic helpers *)

Abs(x) == IF x < 0 THEN -x ELSE x

Range(s) == {s[i] : i \in 1..Len(s)}

\* Python's seq[-n:]
LastN(s, n) == IF Len(s) <= n THEN s ELSE SubSeq(s, Len(s) - n + 1, Len(s))

----------------------------------------------------------------------------
(* EventProcessor *)

REVIEW  == "PullRequestReviewEvent"
COMMENT == "PullRequestReviewCommentEvent"
PUSH    == "PushEvent"

EventTypes == {REVIEW, COMMENT, PUSH}
ActorIds   == {1, 2}
RepoIds    == {10}
\* (type, actor id, repository id) of the generated events: reviews of two
\* actors, the review comments of one of them, and an unrelated event
EventKinds == {<<REVIEW, 1, 10>>, <<REVIEW, 2, 10>>, <<COMMENT, 1, 10>>,
               <<PUSH, 2, 10>>}
\* seconds between one generated event and the next: the same second, the
\* edge of the window, beyond the window
Deltas     == {0, 2, 3}

\* the default of _is_within_time_window's parameter `window`, in seconds
Window == 2
\* len(combined_events[-3:])
CarryOver == 3

\* created_at as the file writes it: an ISO-8601 string of whole seconds
\* (v = seconds since the epoch) or an integer of epoch milliseconds.
Timestamp(fmt, sec) ==
    IF fmt = "iso" THEN [fmt |-> "iso", v |-> sec]
                   ELSE [fmt |-> "ms",  v |-> sec * 1000]

\* _parse_time: a datetime, here in milliseconds since the epoch
ParseTime(timestamp) ==
    IF timestamp.fmt = "iso" THEN timestamp.v * 1000 ELSE timestamp.v

\* _calculate_time_diff, in milliseconds
CalculateTimeDiff(start, end) == end - start

\* _is_within_time_window
IsWithinTimeWindow(event1, event2) ==
    Abs(CalculateTimeDiff(ParseTime(event1.created_at),
                          ParseTime(event2.created_at))) <= Window * 1000

IsCommentOf(e, actor_id, repo_id) ==
    /\ e.type = COMMENT
    /\ e.actor_id = actor_id
    /\ e.repo_id = repo_id

\* the first loop of _should_keep_event: j = index-1 down to the first
\* position; TRUE when the loop ends without returning False
RECURSIVE ScanBackward(_, _, _)
ScanBackward(current_event, events, j) ==
    IF j < 1 THEN TRUE
    ELSE IF ~IsWithinTimeWindow(current_event, events[j]) THEN TRUE
    ELSE IF IsCommentOf(events[j], current_event.actor_id, current_event.repo_id)
         THEN FALSE
    ELSE ScanBackward(current_event, events, j - 1)

\* the second loop with the window measured from the neighbouring record
\* instead of current_event
RECURSIVE ScanForwardChained(_, _, _)
ScanForwardChained(current_event, events, j) ==
    IF j > Len(events) THEN TRUE
    ELSE IF ~IsWithinTimeWindow(events[j - 1], events[j]) THEN TRUE
    ELSE IF IsCommentOf(events[j], current_event.actor_id, current_event.repo_id)
         THEN FALSE
    ELSE ScanForwardChained(current_event, events, j + 1)

\* the second loop of _should_keep_event: j = index+1 up to the last position
RECURSIVE ScanForward(_, _, _)
ScanForward(current_event, events, j) ==
    IF j > Len(events) THEN TRUE
    ELSE IF ~IsWithinTimeWindow(current_event, events[j]) THEN TRUE
    ELSE IF IsCommentOf(events[j], current_event.actor_id, current_event.repo_id)
         THEN FALSE
    ELSE ScanForward(current_event, events, j + 1)

\* _should_keep_event without its second loop
ShouldKeepEventBackwardOnly(current_event, events, index) ==
    ScanBackward(current_event, events, index - 1)

\* _should_keep_event (positions are 1-based here)
ShouldKeepEvent(current_event, events, index) ==
    /\ ScanBackward(current_event, events, index - 1)
    /\ ScanForward(current_event, events, index + 1)

\* the condition of lines 73-79 without its last conjunct
IsConsecutiveDuplicateAnyTime(filtered_events, event) ==
    /\ Len(filtered_events) > 0
    /\ filtered_events[Len(filtered_events)].type = REVIEW
    /\ filtered_events[Len(filtered_events)].actor_id = event.actor_id
    /\ filtered_events[Len(filtered_events)].repo_id = event.repo_id

\* the condition of lines 73-79: the previously emitted record of this call is
\* a review of the same actor and repository within the window
IsConsecutiveDuplicate(filtered_events, event) ==
    /\ Len(filtered_events) > 0
    /\ filtered_events[Len(filtered_events)].type = REVIEW
    /\ filtered_events[Len(filtered_events)].actor_id = event.actor_id
    /\ filtered_events[Len(filtered_events)].repo_id = event.repo_id
    /\ IsWithinTimeWindow(filtered_events[Len(filtered_events)], event)

\* event['id'] in self.processed_ids, never true
IsProcessedNever(event, ids) == FALSE

\* event['id'] in self.processed_ids (lines 71 and 82)
IsProcessed(event, ids) == event.id \in ids

\* the loop of _filter_redundant_review_events from position i on; st holds
\* filtered_events and processed_ids
RECURSIVE FilterLoop(_, _, _)
FilterLoop(combined_events, i, st) ==
    IF i > Len(combined_events) THEN st
    ELSE LET event == combined_events[i]
             keep ==
                IF event.type = REVIEW /\ ~IsProcessed(event, st.processed_ids)
                THEN /\ ShouldKeepEvent(event, combined_events, i)
                     /\ ~IsConsecutiveDuplicate(st.filtered_events, event)
                ELSE ~IsProcessed(event, st.processed_ids)
         IN  FilterLoop(combined_events, i + 1,
                IF keep
                THEN [filtered_events |-> Append(st.filtered_events, event),
                      processed_ids   |-> st.processed_ids \cup {event.id}]
                ELSE st)

\* self.pending_events = combined_events[-3:]
NextPending(combined_events) == LastN(combined_events, CarryOver)

\* _filter_redundant_review_events as a function of the processor's state and
\* the call's argument: the returned list and the processor's new state
FilterRedundantReviewEvents(pending, processed, events) ==
    LET combined_events == pending \o events
        st == FilterLoop(combined_events, 1,
                         [filtered_events |-> << >>, processed_ids |-> processed])
    IN  [filtered_events |-> st.filtered_events,
         processed_ids   |-> st.processed_ids,
         pending_events  |-> NextPending(combined_events)]

\* what e.get(key, {}).get(field) gives for a record without the key
NoLogin == "None"

\* the login of the generated events' actors, the name of their repositories
\* and the login of the organization that owns the repository (repository 11
\* alone belongs to one)
ActorLogin(actor_id) == IF actor_id = 1 THEN "dev" ELSE "bot"
RepoName(repo_id)    == IF repo_id = 10 THEN "o/r" ELSE "o/x"
OrgLogin(repo_id)    == IF repo_id = 10 THEN NoLogin ELSE "org1"

\* a record of kind k = (type, actor id, repository id) as _load_events
\* returns it
EventRecord(k, id, fmt, sec) ==
    [id          |-> id,
     type        |-> k[1],
     actor_id    |-> k[2],
     actor_login |-> ActorLogin(k[2]),
     repo_id     |-> k[3],
     repo_name   |-> RepoName(k[3]),
     org_login   |-> OrgLogin(k[3]),
     created_at  |-> Timestamp(fmt, sec)]

\* _remove_unwanted_actors
RemoveUnwantedActors(events, actors_to_remove) ==
    LET Keep(e) == e.actor_login \notin actors_to_remove
    IN  SelectSeq(events, Keep)

\* _remove_unwanted_repos
RemoveUnwantedRepos(events, repos_to_remove) ==
    LET Keep(e) == e.repo_name \notin repos_to_remove
    IN  SelectSeq(events, Keep)

\* _remove_unwanted_orgs
RemoveUnwantedOrgs(events, orgs_to_remove) ==
    LET Keep(e) == e.org_login \notin orgs_to_remove
    IN  SelectSeq(events, Keep)

\* the test of line 153 passing whatever the platform
IsGithubAlways(p) == TRUE

\* self.platform == "github"
IsGithub(p) == p = "github"

\* the mapper's variables while another component is being studied
MapIdle ==
    /\ action_mapping = << >>
    /\ mapping_strategy = "flexible"
    /\ caller_events = << >>
    /\ events_at_call = << >>
    /\ map_i = 1
    /\ all_mapped_actions = << >>
    /\ unknown_warning_issued = FALSE
    /\ warnings = << >>
    /\ map_pc = "idle"
    /\ map_error = [kind |-> "none", record |-> 0]
    /\ returned = << >>
    /\ written = [actions |-> << >>, activities |-> << >>]

\* the resolver's variables while another component is being studied
CliIdle ==
    /\ action_versions = {}
    /\ activity_versions = {}
    /\ cli_events = << >>
    /\ assigned = << >>
    /\ events_by_period = << >>
    /\ next_period = 1
    /\ resolved = << >>
    /\ all_actions = << >>
    /\ all_activities = << >>
    /\ cli_pc = "idle"

\* the time of the event loaded last, in seconds (0 before the first)
LastSecond ==
    LET all == fed \o file_events
    IN  IF Len(all) = 0 THEN 0
        ELSE ParseTime(all[Len(all)].created_at) \div 1000

\* the filter's variables while another component is being studied
FilterIdle ==
    /\ ts_format = "iso"
    /\ platform = "github"
    /\ actors = {}
    /\ repos = {}
    /\ orgs = {}
    /\ call_combined = << >>
    /\ call_processed_ids = {}
    /\ processed_ids = {}
    /\ pending_events = << >>
    /\ file_events = << >>
    /\ fed = << >>
    /\ batches = << >>
    /\ emitted = << >>
    /\ last_out = << >>

InitFilter ==
    /\ ts_format = "iso"
    /\ platform = "github"
    /\ actors = {}
    /\ repos = {}
    /\ orgs = {}
    /\ call_combined = << >>
    /\ call_processed_ids = {}
    /\ processed_ids = {}
    /\ pending_events = << >>
    /\ file_events = << >>
    /\ fed = << >>
    /\ batches = << >>
    /\ emitted = << >>
    /\ last_out = << >>
    /\ CliIdle
    /\ MapIdle

\* _load_events reads one more record of the current file. Files are read in
\* chronological order; every record has a new identifier.
LoadEvent ==
    /\ Len(batches) < MaxCalls
    /\ Len(fed) + Len(file_events) < MaxEvents
    /\ \E k \in EventKinds,
          d \in IF Len(fed) + Len(file_events) = 0 THEN {0} ELSE Deltas :
          file_events' = Append(file_events,
              EventRecord(k, Len(fed) + Len(file_events) + 1, ts_format,
                          LastSecond + d))
    /\ UNCHANGED <<ts_format, platform, actors, repos, orgs, processed_ids,
                   pending_events, fed, batches, emitted, last_out,
                   call_combined, call_processed_ids>>
    /\ UNCHANGED <<cliVars, mapVars>>

\* process() hands the loaded file (at least one record) to _apply_filters
\* and extends all_events with what it returns
ApplyFilters ==
    /\ Len(file_events) > 0
    /\ Len(batches) < MaxCalls
    /\ LET events == RemoveUnwantedOrgs(
                         RemoveUnwantedRepos(
                             RemoveUnwantedActors(file_events, actors), repos),
                         orgs)
           r == FilterRedundantReviewEvents(pending_events, processed_ids,
                                            events)
       IN  IF IsGithub(platform)
           THEN /\ processed_ids' = r.processed_ids
                /\ pending_events' = r.pending_events
                /\ last_out' = r.filtered_events
                /\ emitted' = emitted \o r.filtered_events
                /\ call_combined' = pending_events \o events
                /\ call_processed_ids' = processed_ids
           ELSE /\ last_out' = events
                /\ emitted' = emitted \o events
                /\ UNCHANGED <<processed_ids, pending_events, call_combined,
                               call_processed_ids>>
    /\ fed' = fed \o file_events
    /\ batches' = Append(batches, Len(file_events))
    /\ file_events' = << >>
    /\ UNCHANGED <<ts_format, platform, actors, repos, orgs>>
    /\ UNCHANGED <<cliVars, mapVars>>

NextFilter == LoadEvent \/ ApplyFilters

SpecFilter == InitFilter /\ [][NextFilter]_vars

\* (type, actor id, repository id) of the records generated when identifiers
\* repeat: a review and a review comment of one actor, and an event of
\* another actor in a repository that an organization owns
PlatformKinds == {<<REVIEW, 1, 10>>, <<COMMENT, 1, 10>>, <<PUSH, 2, 11>>}
\* the identifiers of those records
RecordIds == {1, 2}
\* seconds between one of those records and the next
RecordDeltas == {0, 3}
\* the values of self.platform
Platforms == {"github", "gitlab"}
\* the exclusion lists (actors, repos, orgs) of a run
ExclusionLists ==
    {<<{}, {}, {}>>, <<{"bot"}, {}, {}>>, <<{}, {"o/x"}, {}>>,
     <<{}, {}, {"org1"}>>}

InitPlatform ==
    /\ ts_format \in {"iso", "ms"}
    /\ platform \in Platforms
    /\ \E l \in ExclusionLists :
          /\ actors = l[1]
          /\ repos = l[2]
          /\ orgs = l[3]
    /\ call_combined = << >>
    /\ call_processed_ids = {}
    /\ processed_ids = {}
    /\ pending_events = << >>
    /\ file_events = << >>
    /\ fed = << >>
    /\ batches = << >>
    /\ emitted = << >>
    /\ last_out = << >>
    /\ CliIdle
    /\ MapIdle

\* _load_events reads one more record of the current file. Files are read in
\* chronological order; a record's identifier may be one that an earlier
\* record carries.
LoadRecord ==
    /\ Len(batches) < MaxCalls
    /\ Len(fed) + Len(file_events) < MaxRecords
    /\ \E k \in PlatformKinds, id \in RecordIds,
          d \in IF Len(fed) + Len(file_events) = 0 THEN {0} ELSE RecordDeltas :
          file_events' = Append(file_events,
              EventRecord(k, id, ts_format, LastSecond + d))
    /\ UNCHANGED <<ts_format, platform, actors, repos, orgs, processed_ids,
                   pending_events, fed, batches, emitted, last_out,
                   call_combined, call_processed_ids>>
    /\ UNCHANGED <<cliVars, mapVars>>

NextPlatform == LoadRecord \/ ApplyFilters

SpecPlatform == InitPlatform /\ [][NextPlatform]_vars

----------------------------------------------------------------------------
(* Mapping-version resolver (cli.py) *)

\* the dates (in days) a mapping file's name can carry
VersionDates == 0..4

\* datetime.max and datetime.min on the model's scale of days
DATETIME_MAX == 1000
DATETIME_MIN == -1000

\* created_at of an event that reaches the resolver: absent, a string that
\* is no ISO-8601 date, or an ISO-8601 string of the instant t
CreatedAtValues ==
    {[kind |-> "none", t |-> 0], [kind |-> "bad", t |-> 0]}
        \cup {[kind |-> "iso", t |-> t] : t \in VersionDates \cup {DATETIME_MAX}}

\* _parse_event_date: the set holding the parsed instant, empty for None
ParseEventDate(date_str) ==
    IF date_str.kind = "none" THEN {}
    ELSE IF date_str.kind = "iso" THEN {date_str.t}
    ELSE {}

\* sorted(S)
RECURSIVE Sorted(_)
Sorted(S) ==
    IF S = {} THEN << >>
    ELSE LET m == CHOOSE x \in S : \A y \in S : x <= y
         IN  <<m>> \o Sorted(S \ {m})

\* sorted(S, reverse=True)
RECURSIVE SortedReverse(_)
SortedReverse(S) ==
    IF S = {} THEN << >>
    ELSE LET m == CHOOSE x \in S : \A y \in S : x >= y
         IN  <<m>> \o SortedReverse(S \ {m})

\* _get_version_dates: the dates of all mapping files of the platform
GetVersionDates == action_versions \cup activity_versions

\* _create_time_periods
CreateTimePeriods(sorted_versions) ==
    [i \in 1..Len(sorted_versions) |->
        <<sorted_versions[i],
          IF i + 1 <= Len(sorted_versions) THEN sorted_versions[i + 1]
                                           ELSE DATETIME_MAX>>]

\* the inner loop with a period that starts after its first instant
RECURSIVE FirstPeriodOpenStart(_, _, _)
FirstPeriodOpenStart(event_date, time_periods, n) ==
    IF n > Len(time_periods) THEN 0
    ELSE IF time_periods[n][1] < event_date /\ event_date < time_periods[n][2]
         THEN n
    ELSE FirstPeriodOpenStart(event_date, time_periods, n + 1)

\* the inner loop of _assign_events_to_periods: the position of the first
\* period that holds event_date, 0 when the loop ends without a break
RECURSIVE FirstPeriod(_, _, _)
FirstPeriod(event_date, time_periods, n) ==
    IF n > Len(time_periods) THEN 0
    ELSE IF time_periods[n][1] <= event_date /\ event_date < time_periods[n][2]
         THEN n
    ELSE FirstPeriod(event_date, time_periods, n + 1)

\* the outer loop of _assign_events_to_periods from event i on; by_period is
\* the list of the periods' event lists, in the order of time_periods
RECURSIVE AssignLoop(_, _, _, _)
AssignLoop(events, time_periods, i, by_period) ==
    IF i > Len(events) THEN by_period
    ELSE LET event_date == ParseEventDate(events[i].created_at)
             n == IF event_date = {} THEN 0
                  ELSE FirstPeriod(CHOOSE d \in event_date : TRUE, time_periods, 1)
         IN  AssignLoop(events, time_periods, i + 1,
                IF n = 0 THEN by_period
                ELSE [by_period EXCEPT ![n] = Append(@, events[i])])

\* _assign_events_to_periods: a list of [period, events] in the order of
\* time_periods (the dictionary's insertion order)
AssignEventsToPeriods(events, time_periods) ==
    LET by_period == AssignLoop(events, time_periods, 1,
                                [n \in 1..Len(time_periods) |-> << >>])
    IN  [n \in 1..Len(time_periods) |->
            [period |-> time_periods[n], events |-> by_period[n]]]

\* {k: v for k, v in events_by_period.items() if v}
RECURSIVE RemoveEmptyPeriods(_)
RemoveEmptyPeriods(by_period) ==
    IF by_period = << >> THEN << >>
    ELSE IF Head(by_period).events = << >>
         THEN RemoveEmptyPeriods(Tail(by_period))
    ELSE <<Head(by_period)>> \o RemoveEmptyPeriods(Tail(by_period))

\* period_start + (period_end - period_start) / 2 without the start
PeriodMidNoStart(period_start, period_end) ==
    (period_end - period_start) \div 2

\* period_mid of _process_period
PeriodMid(period_start, period_end) ==
    period_start + (period_end - period_start) \div 2

\* find_valid_mappings sorting the qualifying versions in ascending order
FindValidMappingsOldest(event_date) ==
    LET sorted_action_versions ==
            Sorted({v \in action_versions : v <= event_date})
        sorted_activity_versions ==
            Sorted({v \in activity_versions : v <= event_date})
    IN  [action   |-> IF sorted_action_versions # << >>
                      THEN {sorted_action_versions[1]} ELSE {},
         activity |-> IF sorted_activity_versions # << >>
                      THEN {sorted_activity_versions[1]} ELSE {}]

\* find_valid_mappings: per kind, the set holding the date of the mapping
\* file chosen, empty for None
FindValidMappings(event_date) ==
    LET sorted_action_versions ==
            SortedReverse({v \in action_versions : v <= event_date})
        sorted_activity_versions ==
            SortedReverse({v \in activity_versions : v <= event_date})
    IN  [action   |-> IF sorted_action_versions # << >>
                      THEN {sorted_action_versions[1]} ELSE {},
         activity |-> IF sorted_activity_versions # << >>
                      THEN {sorted_activity_versions[1]} ELSE {}]

\* the test of line 321 failing also when the two files carry different dates
NoValidMappingsOrMixed(valid_mappings) ==
    \/ valid_mappings.action = {}
    \/ valid_mappings.activity = {}
    \/ valid_mappings.action # valid_mappings.activity

\* not valid_mappings['action'] or not valid_mappings['activity']
NoValidMappings(valid_mappings) ==
    valid_mappings.action = {} \/ valid_mappings.activity = {}

\* ActionMapper.map as _process_period uses it (strategy "flexible"): one
\* action per event, in order, made with the mapping file of date `version`
MapEventsToActions(period_events, version) ==
    [i \in 1..Len(period_events) |->
        [event |-> period_events[i], action_mapping |-> version]]

\* ActivityMapper.map: one activity per action, in order, made with the
\* mapping file of date `version`
MapActionsToActivities(actions, version) ==
    [i \in 1..Len(actions) |->
        [action |-> actions[i], activity_mapping |-> version]]

InitPeriods ==
    /\ FilterIdle
    /\ MapIdle
    /\ action_versions \in SUBSET VersionDates
    /\ activity_versions \in SUBSET VersionDates
    /\ \E n \in 0..MaxCliEvents :
          cli_events \in [1..n -> CreatedAtValues]
    /\ assigned = << >>
    /\ events_by_period = << >>
    /\ next_period = 1
    /\ resolved = << >>
    /\ all_actions = << >>
    /\ all_activities = << >>
    /\ cli_pc = "split"

\* the records handed to the resolver: the event at position i with its
\* created_at
CliEventList ==
    [i \in 1..Len(cli_events) |-> [id |-> i, created_at |-> cli_events[i]]]

\* split_events_by_mapping_versions
SplitEventsByMappingVersions ==
    /\ cli_pc = "split"
    /\ LET version_dates == GetVersionDates
           time_periods == CreateTimePeriods(Sorted(version_dates))
           by_period == AssignEventsToPeriods(CliEventList, time_periods)
       IN  IF version_dates = {}
           THEN /\ assigned' = << >>
                /\ events_by_period' =
                      <<[period |-> <<DATETIME_MIN, DATETIME_MAX>>,
                         events |-> CliEventList]>>
           ELSE /\ assigned' = by_period
                /\ events_by_period' = RemoveEmptyPeriods(by_period)
    /\ cli_pc' = "periods"
    /\ UNCHANGED <<action_versions, activity_versions, cli_events, next_period,
                   resolved, all_actions, all_activities>>
    /\ UNCHANGED <<filterVars, mapVars>>

\* one turn of _process_events' loop: `continue` on a period without events,
\* _process_period otherwise
ProcessPeriod ==
    /\ cli_pc = "periods"
    /\ next_period <= Len(events_by_period)
    /\ LET p == events_by_period[next_period]
           period_mid == PeriodMid(p.period[1], p.period[2])
           valid_mappings == FindValidMappings(period_mid)
       IN  IF p.events = << >>
           THEN UNCHANGED <<resolved, all_actions, all_activities>>
           ELSE /\ resolved' = Append(resolved,
                       [period |-> p.period, events |-> p.events,
                        action |-> valid_mappings.action,
                        activity |-> valid_mappings.activity])
                /\ IF NoValidMappings(valid_mappings)
                   THEN UNCHANGED <<all_actions, all_activities>>
                   ELSE LET actions == MapEventsToActions(p.events,
                                CHOOSE v \in valid_mappings.action : TRUE)
                            activities == MapActionsToActivities(actions,
                                CHOOSE v \in valid_mappings.activity : TRUE)
                        IN  /\ all_actions' = all_actions \o actions
                            /\ all_activities' = all_activities \o activities
    /\ next_period' = next_period + 1
    /\ UNCHANGED <<action_versions, activity_versions, cli_events, assigned,
                   events_by_period, cli_pc>>
    /\ UNCHANGED <<filterVars, mapVars>>

\* _process_events returns (also at once, when no period holds an event)
ProcessEventsReturn ==
    /\ cli_pc = "periods"
    /\ next_period > Len(events_by_period)
    /\ cli_pc' = "done"
    /\ UNCHANGED <<action_versions, activity_versions, cli_events, assigned,
                   events_by_period, next_period, resolved, all_actions,
                   all_activities>>
    /\ UNCHANGED <<filterVars, mapVars>>

NextPeriods ==
    SplitEventsByMappingVersions \/ ProcessPeriod \/ ProcessEventsReturn

SpecPeriods == InitPeriods /\ [][NextPeriods]_vars

----------------------------------------------------------------------------
(* ActionMapper (action_mapper.py) *)

\* JSON values, tagged with their Python type. A `json` value is a string
\* that json.loads turns into v; a `date` value is an ISO-8601 string of
\* second sec with the sub-second digits frac (0: it has none); a `path`
\* value is a dotted path string, written as the sequence of its keys.
NoneValue == [t |-> "none"]
Str(s) == [t |-> "str", s |-> s]
Num(n) == [t |-> "int", n |-> n]
Dict(d) == [t |-> "dict", d |-> d]
List(l) == [t |-> "list", l |-> l]
Json(v) == [t |-> "json", v |-> v]
IsoDate(sec, frac) == [t |-> "date", sec |-> sec, frac |-> frac]
Path(p) == [t |-> "path", p |-> p]

\* the dictionary {}
EmptyDict == [k \in {} |-> NoneValue]

\* dict.get(k)
DictGet(value, k) == IF k \in DOMAIN value.d THEN value.d[k] ELSE NoneValue

\* the strings of the mapping documents that start with '^' and end with
\* '$', each with the strings re.match accepts for it
PatternLanguage(pattern) ==
    CASE pattern = "^started$" -> {"started"}
      [] pattern = "^(opened|reopened)$" -> {"opened", "reopened"}
      [] OTHER -> {}

IsPattern(mapping_value) ==
    /\ mapping_value.t = "str"
    /\ mapping_value.s \in {"^started$", "^(opened|reopened)$"}

\* _deserialize_payload: the record after the call (the record is changed in
\* place and returned)
DeserializePayload(event_record) ==
    IF event_record["payload"].t = "json"
    THEN [event_record EXCEPT !["payload"] = @.v]
    ELSE event_record

\* _convert_date_to_iso: the record after the call (changed in place and
\* returned)
ConvertDateToIso(event_record) ==
    LET created_at == IF "created_at" \in DOMAIN event_record
                      THEN event_record["created_at"] ELSE NoneValue
    IN  IF created_at.t = "date"
        THEN [event_record EXCEPT !["created_at"] = IsoDate(created_at.sec, 0)]
        ELSE IF created_at.t = "int"
        THEN [event_record EXCEPT
                 !["created_at"] = IsoDate(created_at.n \div 1000, 0)]
        ELSE event_record

\* lines 153-155 of map: the record map goes on with
Normalize(event_record) ==
    ConvertDateToIso(IF "payload" \in DOMAIN event_record
                     THEN DeserializePayload(event_record)
                     ELSE event_record)

\* the loop of _extract_field over the keys left
RECURSIVE WalkKeys(_, _)
WalkKeys(value, keys) ==
    IF keys = << >> THEN value
    ELSE IF value.t = "list" THEN value
    ELSE LET v == DictGet(value, Head(keys))
         IN  IF v = NoneValue THEN NoneValue ELSE WalkKeys(v, Tail(keys))

\* _extract_field
ExtractField(event_record, field_path) ==
    WalkKeys(Dict(event_record), field_path)

Least(a, b) == IF a <= b THEN a ELSE b

\* _match_condition
RECURSIVE MatchCondition(_, _)
MatchCondition(event_value, mapping_value) ==
    IF mapping_value.t = "dict"
    THEN \A k \in DOMAIN mapping_value.d :
            k \in DOMAIN event_value.d =>
                MatchCondition(DictGet(event_value, k), mapping_value.d[k])
    ELSE IF mapping_value.t = "list"
    THEN IF event_value.t = "list" /\ Len(event_value.l) > 0
         THEN \A i \in 1..Least(Len(event_value.l), Len(mapping_value.l)) :
                 MatchCondition(event_value.l[i], mapping_value.l[i])
         ELSE FALSE
    ELSE IF IsPattern(mapping_value)
    THEN event_value.s \in PatternLanguage(mapping_value.s)
    ELSE event_value = mapping_value

\* _extract_list
ExtractList(event_record, list_mapping) ==
    LET first == list_mapping[1]
        first_key == CHOOSE k \in DOMAIN first : TRUE
        whole == first[first_key].p
        base_path == SubSeq(whole, 1, Len(whole) - 1)
        base_list == ExtractField(event_record, base_path)
    IN  IF base_list.t # "list" THEN List(<< >>)
        ELSE List([i \in 1..Len(base_list.l) |->
                     Dict([key \in DOMAIN first |->
                             DictGet(base_list.l[i],
                                     first[key].p[Len(first[key].p)])])])

\* _extract_fields
RECURSIVE ExtractFields(_, _)
ExtractFields(event_record, field_mapping) ==
    [field_key \in DOMAIN field_mapping |->
        LET mapping_value == field_mapping[field_key]
        IN  IF mapping_value.t = "dict"
            THEN Dict(ExtractFields(event_record, mapping_value.d))
            ELSE IF mapping_value.t = "list"
            THEN ExtractList(event_record, mapping_value.l)
            ELSE ExtractField(event_record, mapping_value.p)]

\* _extract_attributes; common_fields is self.action_mapping['common_fields']
ExtractAttributes(event_record, action_details, action_name, common_fields) ==
    LET common == IF action_details.attributes.include_common_fields
                  THEN ExtractFields(event_record, common_fields)
                  ELSE EmptyDict
        details == ExtractFields(event_record, action_details.attributes.details)
    IN  [k \in {"action", "details"} \cup DOMAIN common |->
            IF k = "details" THEN Dict(details)
            ELSE IF k \in DOMAIN common THEN common[k]
            ELSE Str(action_name)]

\* the condition of lines 159-167: the rule's 'type' is the record's type and
\* every other condition of the rule matches
RuleMatches(event_record, action_details) ==
    /\ ExtractField(event_record, <<"type">>) =
          (IF "type" \in DOMAIN action_details.event
           THEN action_details.event["type"] ELSE NoneValue)
    /\ \A k \in DOMAIN action_details.event \ {"type"} :
          MatchCondition(ExtractField(event_record, <<k>>),
                         action_details.event[k])

\* the loop of line 158 keeping the last rule that matches
RECURSIVE FindRuleLast(_, _, _)
FindRuleLast(event_record, actions, n) ==
    IF n > Len(actions) THEN 0
    ELSE LET later == FindRuleLast(event_record, actions, n + 1)
         IN  IF later # 0 THEN later
             ELSE IF RuleMatches(event_record, actions[n]) THEN n
             ELSE 0

\* the loop of line 158 from rule n on: the position of the rule at which
\* it breaks, 0 when it ends without a break
RECURSIVE FindRule(_, _, _)
FindRule(event_record, actions, n) ==
    IF n > Len(actions) THEN 0
    ELSE IF RuleMatches(event_record, actions[n]) THEN n
    ELSE FindRule(event_record, actions, n + 1)

\* self.action_mapping['actions']['UnknownAction']
UnknownActionRule(actions) ==
    actions[CHOOSE n \in 1..Len(actions) : actions[n].name = "UnknownAction"]

\* lines 175-191 with the test of line 175 always false
OnUnmappedNeverStrict(strategy) ==
    IF strategy = "flexible" THEN "fallback" ELSE "invalid"

\* lines 175-191: what map does with a record no rule matched
OnUnmapped(strategy) ==
    IF strategy = "strict" THEN "unknown"
    ELSE IF strategy = "flexible" THEN "fallback"
    ELSE "invalid"

\* lines 180-182 without the assignment to unknown_warning_issued
WarnEveryTime(issued, printed, i) == Append(printed, i)

\* lines 180-182: the warning is printed unless it was printed before
WarnOnce(issued, printed, i) ==
    IF ~issued THEN Append(printed, i) ELSE printed

\* ---- the inputs of the model ----

\* Events as GitHub sends them. Every payload is a dictionary or its JSON
\* text, every created_at is well-formed or absent, and an event without
\* payload has a type for which no rule tests the payload: on other inputs
\* json.loads, strptime or _match_condition raise before any rule is chosen.
WatchEvent ==
    [id |-> Num(1), type |-> Str("WatchEvent"),
     payload |-> Dict([action |-> Str("started")]),
     created_at |-> IsoDate(5, 0)]

IssueOpened ==
    [id |-> Num(2), type |-> Str("IssuesEvent"),
     payload |-> Json(Dict([action |-> Str("opened")])),
     created_at |-> IsoDate(6, 0)]

IssueClosed ==
    [id |-> Num(3), type |-> Str("IssuesEvent"),
     payload |-> Dict([action |-> Str("closed")]),
     created_at |-> Num(7500)]

ForkEvent ==
    [id |-> Num(4), type |-> Str("ForkEvent"),
     payload |-> Dict(EmptyDict),
     created_at |-> IsoDate(8, 123)]

PushWithCommits ==
    [id |-> Num(5), type |-> Str("PushEvent"),
     payload |-> Dict([commits |->
                        List(<<Dict([sha |-> Str("a"), distinct |-> Str("yes")]),
                               Dict([sha |-> Str("b")])>>)]),
     created_at |-> IsoDate(9, 0)]

PingEvent == [id |-> Num(6), type |-> Str("PingEvent")]

EventUniverse ==
    {WatchEvent, IssueOpened, IssueClosed, ForkEvent, PushWithCommits, PingEvent}

NoDetails == [include_common_fields |-> FALSE, details |-> EmptyDict]

OpenIssue ==
    [name |-> "OpenIssue",
     event |-> [type |-> Str("IssuesEvent"),
                payload |-> Dict([action |-> Str("^(opened|reopened)$")])],
     attributes |-> [include_common_fields |-> TRUE,
                     details |-> [issue |-> Dict([state |-> Path(<<"payload", "action">>)])]]]

IssueActivity ==
    [name |-> "IssueActivity",
     event |-> [type |-> Str("IssuesEvent")],
     attributes |-> NoDetails]

Star ==
    [name |-> "Star",
     event |-> [type |-> Str("WatchEvent"),
                payload |-> Dict([action |-> Str("started")])],
     attributes |-> [include_common_fields |-> FALSE,
                     details |-> [how |-> Path(<<"payload", "action">>)]]]

PushCommits ==
    [name |-> "PushCommits",
     event |-> [type |-> Str("PushEvent"),
                payload |-> Dict([commits |->
                                    List(<<Dict([distinct |-> Str("yes")])>>)])],
     attributes |-> [include_common_fields |-> FALSE,
                     details |-> [commits |->
                        List(<<[sha |-> Path(<<"payload", "commits", "sha">>)]>>)]]]

UnknownAction ==
    [name |-> "UnknownAction",
     event |-> [type |-> Str("UnknownEvent")],
     attributes |-> [include_common_fields |-> TRUE,
                     details |-> [payload |-> Path(<<"payload">>)]]]

CommonFields ==
    [event_id |-> Path(<<"id">>), date |-> Path(<<"created_at">>)]

\* mapping documents: the same rules in two orders, and one whose only rule
\* is the fallback
MappingDocuments ==
    {[common_fields |-> CommonFields,
      actions |-> <<OpenIssue, IssueActivity, Star, PushCommits, UnknownAction>>],
     [common_fields |-> CommonFields,
      actions |-> <<UnknownAction, Star, IssueActivity, OpenIssue>>],
     [common_fields |-> CommonFields,
      actions |-> <<IssueActivity, Star, UnknownAction>>]}

\* values of mapping_strategy; "lenient" stands for any other string
Strategies == {"strict", "flexible", "lenient"}

InitMap ==
    /\ FilterIdle
    /\ CliIdle
    /\ action_mapping \in MappingDocuments
    /\ mapping_strategy \in Strategies
    /\ \E n \in 0..MaxMapEvents : caller_events \in [1..n -> EventUniverse]
    /\ events_at_call = caller_events
    /\ map_i = 1
    /\ all_mapped_actions = << >>
    /\ unknown_warning_issued = FALSE
    /\ warnings = << >>
    /\ map_pc = "loop"
    /\ map_error = [kind |-> "none", record |-> 0]
    /\ returned = << >>
    /\ written = [actions |-> << >>, activities |-> << >>]

\* one turn of map's loop (lines 150-191) on the record at map_i
MapRecord ==
    /\ map_pc = "loop"
    /\ map_i <= Len(caller_events)
    /\ LET event_record == Normalize(caller_events[map_i])
           actions == action_mapping.actions
           n == FindRule(event_record, actions, 1)
           todo == IF n # 0 THEN "matched" ELSE OnUnmapped(mapping_strategy)
       IN  /\ caller_events' = [caller_events EXCEPT ![map_i] = event_record]
           /\ CASE todo = "matched" ->
                     /\ all_mapped_actions' = Append(all_mapped_actions,
                           ExtractAttributes(event_record, actions[n],
                               actions[n].name, action_mapping.common_fields))
                     /\ map_i' = map_i + 1
                     /\ UNCHANGED <<unknown_warning_issued, warnings, map_pc,
                                    map_error>>
                [] todo = "fallback" ->
                     /\ warnings' = WarnOnce(unknown_warning_issued, warnings, map_i)
                     /\ unknown_warning_issued' = TRUE
                     /\ all_mapped_actions' = Append(all_mapped_actions,
                           ExtractAttributes(event_record,
                               UnknownActionRule(actions), "UnknownAction",
                               action_mapping.common_fields))
                     /\ map_i' = map_i + 1
                     /\ UNCHANGED <<map_pc, map_error>>
                [] todo = "unknown" ->
                     /\ map_pc' = "raised"
                     /\ map_error' = [kind |-> "UnknownAction encountered",
                                      record |-> map_i]
                     /\ UNCHANGED <<all_mapped_actions, map_i,
                                    unknown_warning_issued, warnings>>
                [] todo = "invalid" ->
                     /\ map_pc' = "raised"
                     /\ map_error' = [kind |-> "Invalid mapping_strategy",
                                      record |-> map_i]
                     /\ UNCHANGED <<all_mapped_actions, map_i,
                                    unknown_warning_issued, warnings>>
    /\ UNCHANGED <<action_mapping, mapping_strategy, events_at_call, returned,
                   written>>
    /\ UNCHANGED <<filterVars, cliVars>>

\* line 193: the loop is over and map returns its list
MapReturn ==
    /\ map_pc = "loop"
    /\ map_i > Len(caller_events)
    /\ returned' = all_mapped_actions
    /\ map_pc' = "returned"
    /\ UNCHANGED <<action_mapping, mapping_strategy, caller_events,
                   events_at_call, map_i, all_mapped_actions,
                   unknown_warning_issued, warnings, map_error, written>>
    /\ UNCHANGED <<filterVars, cliVars>>

\* main after map returned: the activities are made of the actions and
\* _save_results writes both lists
SaveResults ==
    /\ map_pc = "returned"
    /\ written' = [actions |-> returned,
                   activities |-> MapActionsToActivities(returned, 0)]
    /\ map_pc' = "saved"
    /\ UNCHANGED <<action_mapping, mapping_strategy, caller_events,
                   events_at_call, map_i, all_mapped_actions,
                   unknown_warning_issued, warnings, map_error, returned>>
    /\ UNCHANGED <<filterVars, cliVars>>

\* main after map raised: the exception passes _process_events, main's
\* except clause prints it and _save_results is never called
MainExcept ==
    /\ map_pc = "raised"
    /\ map_pc' = "reported"
    /\ UNCHANGED <<action_mapping, mapping_strategy, caller_events,
                   events_at_call, map_i, all_mapped_actions,
                   unknown_warning_issued, warnings, map_error, returned,
                   written>>
    /\ UNCHANGED <<filterVars, cliVars>>

NextMap == MapRecord \/ MapReturn \/ SaveResults \/ MainExcept

SpecMap == InitMap /\ [][NextMap]_vars

----------------------------------------------------------------------------
(* Properties of the filter *)

\* the argument of the most recent filter call
LastBatch ==
    IF Len(batches) = 0 THEN << >> ELSE LastN(fed, batches[Len(batches)])

\* the distance between two records' timestamps is at most `sec` seconds
Apart(e1, e2, sec) ==
    Abs(ParseTime(e1.created_at) - ParseTime(e2.created_at)) <= sec * 1000

\* positions i < j < k of `b` hold three reviews of one actor and repository
\* within 2 seconds, and position c a review comment of that actor and
\* repository
ReviewTriple(b, i, j, k, c) ==
    /\ i < j /\ j < k
    /\ b[i].type = REVIEW /\ b[j].type = REVIEW /\ b[k].type = REVIEW
    /\ b[j].actor_id = b[i].actor_id /\ b[k].actor_id = b[i].actor_id
    /\ b[j].repo_id = b[i].repo_id /\ b[k].repo_id = b[i].repo_id
    /\ Apart(b[i], b[k], 2)
    /\ b[c].type = COMMENT
    /\ b[c].actor_id = b[i].actor_id
    /\ b[c].repo_id = b[i].repo_id

\* C1 (as claimed): a chronological list with distinct identifiers, fed in two
\* consecutive batches to one fresh EventProcessor, yields over the two calls
\* the same set of records as one call with the whole list on a fresh
\* EventProcessor.
C1_CarryOverContinuity ==
    Len(batches) = 2 =>
        Range(emitted) =
            Range(FilterRedundantReviewEvents(<< >>, {}, fed).filtered_events)

\* C3 (as claimed): when one call receives three reviews of one actor and
\* repository within 2 seconds and a review comment of that actor and
\* repository within 2 seconds of the middle review, none of the three
\* reviews is emitted.
C3_DedupWindowSymmetry ==
    \A i, j, k, c \in 1..Len(LastBatch) :
        (ReviewTriple(LastBatch, i, j, k, c) /\ Apart(LastBatch[c], LastBatch[j], 2))
        => {LastBatch[i], LastBatch[j], LastBatch[k]} \cap Range(last_out) = {}

\* C3 (amended): when one call receives three reviews of one actor and
\* repository within 2 seconds and a review comment of that actor and
\* repository within 2 seconds of each of the three reviews, none of the
\* three reviews is emitted.
C3_DedupWindowAllThree ==
    \A i, j, k, c \in 1..Len(LastBatch) :
        (/\ ReviewTriple(LastBatch, i, j, k, c)
         /\ Apart(LastBatch[c], LastBatch[i], 2)
         /\ Apart(LastBatch[c], LastBatch[j], 2)
         /\ Apart(LastBatch[c], LastBatch[k], 2))
        => {LastBatch[i], LastBatch[j], LastBatch[k]} \cap Range(last_out) = {}

\* C3 witness: a call has received such a triple with the comment after the
\* reviews, at the edge of the window of the first one, and emitted the
\* comment alone.
C3_Witness ==
    /\ Len(LastBatch) = 4
    /\ ReviewTriple(LastBatch, 1, 2, 3, 4)
    /\ ParseTime(LastBatch[4].created_at) - ParseTime(LastBatch[1].created_at)
          = 2000
    /\ last_out = <<LastBatch[4]>>

\* the records that are on none of the three exclusion lists, in order
Survivors(events) ==
    LET Keep(e) == /\ e.actor_login \notin actors
                   /\ e.repo_name \notin repos
                   /\ e.org_login \notin orgs
    IN  SelectSeq(events, Keep)

\* C11: a call of _apply_filters on a processor whose platform is not
\* "github" returns the records that are on none of the exclusion lists, in
\* their input order, and leaves processed_ids and pending_events as they
\* were; on platform "github" it returns what the redundancy filter makes
\* of those records and carries over the last 3 of combined.
C11_PlatformSpecificFilter ==
    [][batches' # batches =>
        IF platform = "github"
        THEN /\ last_out' =
                   FilterRedundantReviewEvents(pending_events, processed_ids,
                       Survivors(file_events)).filtered_events
             /\ pending_events' =
                   LastN(pending_events \o Survivors(file_events), 3)
        ELSE /\ last_out' = Survivors(file_events)
             /\ processed_ids' = processed_ids
             /\ pending_events' = pending_events]_vars

\* C11 witness: a processor of another platform was handed a review, a
\* review comment of the same actor and repository in the same second that
\* carries the review's identifier, and a record on an exclusion list; it
\* returned the first two and recorded nothing.
C11_Witness ==
    /\ platform # "github"
    /\ Len(LastBatch) = 3
    /\ Len(last_out) = 2
    /\ last_out[1].type = REVIEW
    /\ IsCommentOf(last_out[2], last_out[1].actor_id, last_out[1].repo_id)
    /\ Apart(last_out[1], last_out[2], 0)
    /\ last_out[1].id = last_out[2].id
    /\ processed_ids = {}
    /\ pending_events = << >>

\* position j of c holds a review comment of the actor and repository of
\* the record at position i, and every record from i (exclusive) to j
\* (inclusive) is within 2 seconds of the record at i
AnchoredComment(c, i, j) ==
    /\ j # i
    /\ c[j].type = COMMENT
    /\ c[j].actor_id = c[i].actor_id
    /\ c[j].repo_id = c[i].repo_id
    /\ \A k \in 1..Len(c) :
          ((i < k /\ k <= j) \/ (j <= k /\ k < i)) => Apart(c[i], c[k], 2)

\* the review at position i of c is a review the call had not seen before
NewReview(c, i) ==
    /\ c[i].type = REVIEW
    /\ c[i].id \notin call_processed_ids

\* the record the most recent call emitted last before it came to position
\* i of c is a review of the actor and repository of the record at i, within
\* 2 seconds of it
FollowsEmittedReview(c, i) ==
    \E k \in 1..(i - 1) :
        /\ c[k] \in Range(last_out)
        /\ \A m \in (k + 1)..(i - 1) : c[m] \notin Range(last_out)
        /\ c[k].type = REVIEW
        /\ c[k].actor_id = c[i].actor_id
        /\ c[k].repo_id = c[i].repo_id
        /\ Apart(c[k], c[i], 2)

\* C13: a review the call had not seen before, at position i of combined, is
\* missing from the call's output whenever some position j holds a review
\* comment of its actor and repository with every record from i to j within
\* 2 seconds of it; when it is missing and no such j exists, the review is
\* the duplicate of the previously emitted review. So a comment more than
\* 2 seconds away never removes a review.
C13_AnchoredWindowScan ==
    \A i \in 1..Len(call_combined) :
        NewReview(call_combined, i) =>
            /\ (\E j \in 1..Len(call_combined) :
                    AnchoredComment(call_combined, i, j))
                    => call_combined[i] \notin Range(last_out)
            /\ call_combined[i] \notin Range(last_out)
                    => \/ \E j \in 1..Len(call_combined) :
                              AnchoredComment(call_combined, i, j)
                       \/ FollowsEmittedReview(call_combined, i)

\* C13 witness: one call received a review, 2 seconds later a review of the
\* same actor and repository, and 2 seconds later their review comment; it
\* emitted the first review, which a chain of closely spaced records links
\* to the comment 4 seconds away, and dropped the second.
C13_Witness ==
    /\ Len(call_combined) = 3
    /\ NewReview(call_combined, 1)
    /\ NewReview(call_combined, 2)
    /\ AnchoredComment(call_combined, 2, 3)
    /\ call_combined[1].actor_id = call_combined[2].actor_id
    /\ ParseTime(call_combined[2].created_at)
          - ParseTime(call_combined[1].created_at) = 2000
    /\ ParseTime(call_combined[3].created_at)
          - ParseTime(call_combined[2].created_at) = 2000
    /\ last_out = <<call_combined[1], call_combined[3]>>

\* C14: on platform "github", processed_ids is the set of the identifiers
\* of the records emitted so far and no identifier was emitted twice; and
\* processed_ids never loses an element.
C14_SeenIdsInvariant ==
    /\ [](platform = "github" =>
            /\ processed_ids = {emitted[i].id : i \in 1..Len(emitted)}
            /\ \A i, j \in 1..Len(emitted) :
                  i # j => emitted[i].id # emitted[j].id)
    /\ [][processed_ids \subseteq processed_ids']_vars

\* C14 witness: the second call found an emitted record in the carry-over,
\* received a new record with that identifier and a record with another
\* one, and emitted the last alone.
C14_Witness ==
    /\ platform = "github"
    /\ Len(batches) = 2
    /\ Len(LastBatch) = 2
    /\ call_combined = pending_events
    /\ Len(call_combined) = 3
    /\ call_combined[1].id \in call_processed_ids
    /\ call_combined[2].id = call_combined[1].id
    /\ last_out = <<call_combined[3]>>
    /\ Len(emitted) = 2

\* what had been passed to the filter, and what it had emitted, before the
\* most recent call
PrevFed == SubSeq(fed, 1, Len(fed) - Len(LastBatch))
PrevEmitted == SubSeq(emitted, 1, Len(emitted) - Len(last_out))

\* C15 (as claimed): a review that an earlier call received and did not emit
\* is not emitted by the most recent call.
C15_SuppressionPermanent ==
    \A e \in Range(PrevFed) :
        (e.type = REVIEW /\ e \notin Range(PrevEmitted))
            => e \notin Range(last_out)

\* C16: no review in a call's output directly follows a review of the same
\* actor and repository within 2 seconds of it; and a review the call had
\* not seen before that _should_keep_event keeps is missing from the output
\* exactly when the record emitted last before it is such a review.
C16_ConsecutiveDuplicatesCollapse ==
    /\ \A n \in 1..(Len(last_out) - 1) :
          ~(/\ last_out[n].type = REVIEW
            /\ last_out[n + 1].type = REVIEW
            /\ last_out[n].actor_id = last_out[n + 1].actor_id
            /\ last_out[n].repo_id = last_out[n + 1].repo_id
            /\ Apart(last_out[n], last_out[n + 1], 2))
    /\ \A i \in 1..Len(call_combined) :
          (/\ NewReview(call_combined, i)
           /\ ShouldKeepEvent(call_combined[i], call_combined, i))
          => (call_combined[i] \notin Range(last_out)
                <=> FollowsEmittedReview(call_combined, i))

\* C16 witness: one call received three reviews of one actor and repository,
\* each 2 seconds after the one before; it emitted the first, dropped the
\* second as its duplicate and emitted the third, 4 seconds after the
\* first.
C16_Witness ==
    /\ Len(call_combined) = 3
    /\ \A i \in 1..3 :
          /\ NewReview(call_combined, i)
          /\ call_combined[i].actor_id = call_combined[1].actor_id
          /\ ParseTime(call_combined[i].created_at)
                - ParseTime(call_combined[1].created_at) = 2000 * (i - 1)
    /\ last_out = <<call_combined[1], call_combined[3]>>

----------------------------------------------------------------------------
(* Properties of the resolver *)

\* the events _assign_events_to_periods put into some period
AssignedEvents ==
    UNION {Range(assigned[n].events) : n \in 1..Len(assigned)}

\* how many times record e occurs in the periods' lists
Occurrences(e) ==
    Cardinality({<<n, i>> \in (1..Len(assigned)) \X (1..MaxCliEvents + 1) :
                    i <= Len(assigned[n].events) /\ assigned[n].events[i] = e})

\* the versions of `versions` effective at instant t
EffectiveAt(versions, t) == {v \in versions : v <= t}

\* the latest version of `versions` effective at instant t, as a set
LatestAt(versions, t) ==
    {v \in EffectiveAt(versions, t) : \A w \in EffectiveAt(versions, t) : w <= v}

C4_MappedWithVersionOfEventTime ==
    /\ \A i \in 1..Len(all_actions) :
          /\ all_actions[i].event.created_at.kind = "iso"
          /\ LatestAt(action_versions, all_actions[i].event.created_at.t)
                = {all_actions[i].action_mapping}
    /\ \A i \in 1..Len(all_activities) :
          LatestAt(activity_versions,
                   all_activities[i].action.event.created_at.t)
                = {all_activities[i].activity_mapping}

\* C4 witness: an event was mapped while an older and a newer action mapping
\* than the one used exist, and its activity mapping has another date than
\* its action mapping.
C4_Witness ==
    \E i \in 1..Len(all_activities) :
        LET a == all_activities[i].action
        IN  /\ \E v, w \in action_versions :
                  v < a.action_mapping /\ a.event.created_at.t < w
            /\ all_activities[i].activity_mapping # a.action_mapping
            /\ a.action_mapping < a.event.created_at.t

\* C5: of two processed periods, the one that starts earlier resolves, per
\* kind, to a version that is not later than the other's.
C5_VersionMonotonicity ==
    \A i, j \in 1..Len(resolved) :
        resolved[i].period[1] < resolved[j].period[1] =>
            /\ \A v \in resolved[i].action : \A w \in resolved[j].action : v <= w
            /\ \A v \in resolved[i].activity : \A w \in resolved[j].activity : v <= w

\* C5 witness: two periods were processed and resolved to different action
\* versions, the earlier period to the earlier one, and to one and the same
\* activity version.
C5_Witness ==
    \E i, j \in 1..Len(resolved) :
        /\ resolved[i].period[1] < resolved[j].period[1]
        /\ \E v \in resolved[i].action : \E w \in resolved[j].action : v < w
        /\ resolved[i].activity # {}
        /\ resolved[i].activity = resolved[j].activity

\* the instant halfway through period p
MidOf(p) == p[1] + (p[2] - p[1]) \div 2

\* a version of each kind is effective halfway through period p
Qualifies(p) ==
    /\ EffectiveAt(action_versions, MidOf(p)) # {}
    /\ EffectiveAt(activity_versions, MidOf(p)) # {}

\* the events of the periods with events that do, or do not, qualify
EventsOfPeriods(qualifying) ==
    UNION {Range(events_by_period[n].events) :
              n \in {m \in 1..Len(events_by_period) :
                         Qualifies(events_by_period[m].period) = qualifying}}

\* C12: when _process_events has returned, every period with events was
\* processed; no action and no activity stems from an event of a period for
\* which no action version or no activity version is effective at its
\* midpoint, and every event of the other periods has its action and its
\* activity.
C12_PeriodWithoutVersionSkipped ==
    cli_pc = "done" =>
        /\ Len(resolved) =
              Cardinality({n \in 1..Len(events_by_period) :
                              events_by_period[n].events # << >>})
        /\ {all_actions[i].event : i \in 1..Len(all_actions)}
              = EventsOfPeriods(TRUE)
        /\ {all_activities[i].action.event : i \in 1..Len(all_activities)}
              = EventsOfPeriods(TRUE)
        /\ Len(all_actions) = Cardinality(EventsOfPeriods(TRUE))
        /\ Len(all_activities) = Cardinality(EventsOfPeriods(TRUE))

\* C12 witness: _process_events has returned after a period with an event
\* and an activity version but no action version, which it skipped, and a
\* later period whose event it mapped.
C12_Witness ==
    /\ cli_pc = "done"
    /\ Len(resolved) = 2
    /\ resolved[1].action = {}
    /\ resolved[1].activity # {}
    /\ resolved[1].events # << >>
    /\ resolved[2].action # {}
    /\ resolved[2].activity # {}
    /\ Len(all_actions) = 1
    /\ Len(all_activities) = 1
    /\ all_actions[1].event \in Range(resolved[2].events)

----------------------------------------------------------------------------
(* Properties of ActionMapper.map *)

\* the records map has worked on so far without raising
Processed == 1..(map_i - 1)

\* rule n of the document matches the record at position k (as map left it)
Matches(k, n) == RuleMatches(caller_events[k], action_mapping.actions[n])

\* no rule of the document matches the record at position k
Unmapped(k) == \A n \in 1..Len(action_mapping.actions) : ~Matches(k, n)

\* the record at position k of the batch, normalised, matches no rule
UnmappedInput(k) ==
    \A n \in 1..Len(action_mapping.actions) :
        ~RuleMatches(Normalize(events_at_call[k]), action_mapping.actions[n])

\* C6: every processed record has exactly one output record, at its own
\* position, and when some rule matches the record the output's category is
\* the name of the first rule of the document that matches it.
C6_FirstMatchWins ==
    /\ map_pc = "loop" => Len(all_mapped_actions) = map_i - 1
    /\ \A k \in Processed :
          \A n \in 1..Len(action_mapping.actions) :
              (Matches(k, n) /\ \A m \in 1..(n - 1) : ~Matches(k, m))
              => all_mapped_actions[k]["action"]
                    = Str(action_mapping.actions[n].name)

\* C6 witness: map returned a list in which a record that two rules match
\* carries the name of the first of them.
C6_Witness ==
    /\ map_pc = "returned"
    /\ \E k \in Processed :
          \E n, m \in 1..Len(action_mapping.actions) :
              /\ n < m
              /\ Matches(k, n) /\ Matches(k, m)
              /\ returned[k]["action"] = Str(action_mapping.actions[n].name)
              /\ returned[k]["action"] # Str(action_mapping.actions[m].name)

\* C7: once a call with strategy "strict" on a batch with a record that
\* matches no rule is over, it has raised the UnknownAction error for the
\* first such record and returned nothing, and main has written nothing.
C7_StrictAbortsBatch ==
    (/\ mapping_strategy = "strict"
     /\ map_pc \notin {"idle", "loop"}
     /\ \E k \in 1..Len(events_at_call) : UnmappedInput(k))
    => /\ map_pc \in {"raised", "reported"}
       /\ map_error.kind = "UnknownAction encountered"
       /\ map_error.record \in 1..Len(events_at_call)
       /\ UnmappedInput(map_error.record)
       /\ \A j \in 1..(map_error.record - 1) : ~UnmappedInput(j)
       /\ returned = << >>
       /\ written = [actions |-> << >>, activities |-> << >>]

\* C7 witness: under "strict" main has reported the error of a record that
\* came after a record that matched a rule.
C7_Witness ==
    /\ mapping_strategy = "strict"
    /\ map_pc = "reported"
    /\ map_error.record > 1
    /\ Len(all_mapped_actions) = map_error.record - 1
    /\ written.actions = << >>

\* C8 (as claimed): a call with a strategy other than "strict" and "flexible"
\* never returns: it raises and yields no output records.
C8_InvalidStrategyFails ==
    (mapping_strategy \notin {"strict", "flexible"}
        /\ map_pc \notin {"idle", "loop"})
    => (map_pc \in {"raised", "reported"} /\ returned = << >>)

\* C9: under "flexible" the warning is printed at the first processed record
\* that matches no rule and at no other record, and every processed record
\* that matches no rule has, at its own position, the output made of the
\* UnknownAction rule.
C9_FlexibleFallback ==
    mapping_strategy = "flexible" /\ map_pc # "idle" =>
        LET unmapped == {k \in Processed : Unmapped(k)}
        IN  /\ unmapped = {} => warnings = << >>
            /\ unmapped # {} =>
                  /\ Len(warnings) = 1
                  /\ warnings[1] \in unmapped
                  /\ \A k \in unmapped : warnings[1] <= k
            /\ Len(all_mapped_actions) = map_i - 1
            /\ \A k \in unmapped :
                  /\ all_mapped_actions[k]["action"] = Str("UnknownAction")
                  /\ all_mapped_actions[k] =
                        ExtractAttributes(caller_events[k],
                            UnknownActionRule(action_mapping.actions),
                            "UnknownAction", action_mapping.common_fields)

\* C9 witness: a "flexible" call returned after two records matched no rule,
\* with a matching record between them, and printed the warning at the first.
C9_Witness ==
    /\ mapping_strategy = "flexible"
    /\ map_pc = "returned"
    /\ Len(caller_events) = 3
    /\ Unmapped(1) /\ ~Unmapped(2) /\ Unmapped(3)
    /\ warnings = <<1>>
    /\ returned[3]["action"] = Str("UnknownAction")

\* C10 (as claimed): when map returns, every record of the caller's list has
\* the field values it had before the call.
C10_InputNotMutated ==
    map_pc = "returned" => caller_events = events_at_call

====
